---- MODULE Spec2Model ----
(***************************************************************************)
(* Model of the toroidal Game of Life universe of src/src/lib.rs:          *)
(* struct Universe { width, height, cells } with new(), tick(), render().  *)
(* A Vec<Cell> is a sequence of cell values; Vec index i is position i+1.  *)
(***************************************************************************)
EXTENDS Integers, Sequences, FiniteSets

\* ------------------------------------------------------------------ bounds
\* Ticks explored from new() (the 64x64 universe).
MaxGen == 50
\* Ticks explored from new() when every public method is called.
MaxApiGen == 20
\* Ticks explored from each exhaustively enumerated grid.
MaxGridGen == 1
\* Ticks explored from each placed pattern.
MaxPatGen == 4
\* Largest width / height of the exhaustively enumerated grids.
MaxDim == 4
\* Largest number of cells of the exhaustively enumerated grids.
MaxCells == 12
\* Largest width / height of the grids that carry a placed pattern.
MaxPat == 6
\* Largest width / height and number of cells of the grids on which tick()
\* is followed one cell at a time.
MaxScanDim == 3
MaxScanCells == 9
\* Largest number of cells of the grids on which the cells are handled in
\* every possible order.
MaxAnyCells == 6

\* ------------------------------------------------------- program constants
\* enum Cell, #[repr(u8)]
Dead == 0
Alive == 1
\* count is a u8: its arithmetic is taken modulo 256.  The u32 values (row +
\* delta_row, row * width + column, height - 1) stay below 2 * width * height
\* and at or above 0 for every universe with width >= 1 and height >= 1 of at
\* most 2^30 cells, so they are modelled as plain integers.
U8 == 256
\* new(): let width = 64; let height = 64;
NewWidth == 64
NewHeight == 64
\* Display glyphs as Unicode code points: U+25FB, U+25FC, '\n'
Hollow == 9723
Filled == 9724
Newline == 10

\* -------------------------------------------------------------------- state
VARIABLES
    width,      \* Universe.width
    height,     \* Universe.height
    cells,      \* Universe.cells
    last,       \* the most recent operation: "new", "tick", "render", "width",
                \* "height" or "cells"
    out,        \* the String returned by the most recent call, if it was render()
    gen,        \* history: number of tick() calls so far
    start,      \* history: the cells the universe was constructed with
    ret,        \* the value returned by the most recent call, if it was
                \* width(), height() or cells(); <<>> otherwise
    pc,         \* "idle", or "scan" while a tick() is in its loops
    next_buf,   \* tick()'s local buffer `next` while pc = "scan"; <<>> otherwise
    todo        \* the (row, col) pairs the loops of tick() have yet to handle

vars == <<width, height, cells, last, out, gen, start, ret, pc, next_buf, todo>>

\* The state outside of any call: nothing returned, no tick() in progress.
Quiescent ==
    /\ ret = <<>>
    /\ pc = "idle"
    /\ next_buf = <<>>
    /\ todo = {}

\* A universe value (the `self` of the methods).
Universe(w, h, cs) == [width |-> w, height |-> h, cells |-> cs]

Self == Universe(width, height, cells)

\* Vec indexing: cells[idx] with a 0-based idx.
At(cs, idx) == cs[idx + 1]

\* A variant of get_index that strides by the height instead of the width.
get_index_StrideHeight(self, row, column) == row * self.height + column

\* ------------------------------------------------------------ get_index
get_index(self, row, column) == row * self.width + column

\* -------------------------------------------------- live_neighbor_count
\* Variant: the row deltas taken from the width.
DeltaRows_UsesWidth(self) == <<self.width - 1, 0, 1>>

\* Variant: the column deltas taken from the height.
DeltaCols_UsesHeight(self) == <<self.height - 1, 0, 1>>

\* The arrays [self.height - 1, 0, 1] and [self.width - 1, 0, 1].
DeltaRows(self) == <<self.height - 1, 0, 1>>

DeltaCols(self) == <<self.width - 1, 0, 1>>

\* Variant: the inner loop without the `continue` that skips the cell itself.
RECURSIVE CountCols_NoSkip(_, _, _, _, _, _)
CountCols_NoSkip(self, row, column, delta_row, j, count) ==
    IF j > 3 THEN count
    ELSE LET delta_col == DeltaCols(self)[j]
             neighbor_row == (row + delta_row) % self.height
             neighbor_col == (column + delta_col) % self.width
             idx == get_index(self, neighbor_row, neighbor_col)
         IN  CountCols_NoSkip(self, row, column, delta_row, j + 1,
                              (count + At(self.cells, idx)) % U8)

\* The inner loop `for delta_col in ...` from its j-th element on.
RECURSIVE CountCols(_, _, _, _, _, _)
CountCols(self, row, column, delta_row, j, count) ==
    IF j > 3 THEN count
    ELSE LET delta_col == DeltaCols(self)[j] IN
         IF delta_row = 0 /\ delta_col = 0
         THEN CountCols(self, row, column, delta_row, j + 1, count)
         ELSE LET neighbor_row == (row + delta_row) % self.height
                  neighbor_col == (column + delta_col) % self.width
                  idx == get_index(self, neighbor_row, neighbor_col)
              IN  CountCols(self, row, column, delta_row, j + 1,
                            (count + At(self.cells, idx)) % U8)

\* The outer loop `for delta_row in ...` from its i-th element on.
RECURSIVE CountRows(_, _, _, _, _)
CountRows(self, row, column, i, count) ==
    IF i > 3 THEN count
    ELSE CountRows(self, row, column, i + 1,
                   CountCols(self, row, column, DeltaRows(self)[i], 1, count))

live_neighbor_count(self, row, column) == CountRows(self, row, column, 1, 0)

\* ------------------------------------------------------------------ tick
\* Variant: overpopulation already at three live neighbours.
NextCell_Over2(cell, live_neighbors) ==
    IF cell = Alive /\ live_neighbors < 2 THEN Dead
    ELSE IF cell = Alive /\ live_neighbors = 2 THEN Alive
    ELSE IF cell = Alive /\ live_neighbors > 2 THEN Dead
    ELSE IF cell = Dead /\ live_neighbors = 3 THEN Alive
    ELSE cell

\* Variant: no underpopulation arm.
NextCell_NoUnderpopulation(cell, live_neighbors) ==
    IF (cell = Alive /\ live_neighbors = 2) \/ (cell = Alive /\ live_neighbors = 3)
    THEN Alive
    ELSE IF cell = Alive /\ live_neighbors > 3 THEN Dead
    ELSE IF cell = Dead /\ live_neighbors = 3 THEN Alive
    ELSE cell

\* Variant: reproduction at two live neighbours.
NextCell_BirthAt2(cell, live_neighbors) ==
    IF cell = Alive /\ live_neighbors < 2 THEN Dead
    ELSE IF (cell = Alive /\ live_neighbors = 2) \/ (cell = Alive /\ live_neighbors = 3)
         THEN Alive
    ELSE IF cell = Alive /\ live_neighbors > 3 THEN Dead
    ELSE IF cell = Dead /\ live_neighbors = 2 THEN Alive
    ELSE cell

\* The match on (cell, live_neighbors): arms are tried in order.
NextCell(cell, live_neighbors) ==
    IF cell = Alive /\ live_neighbors < 2 THEN Dead
    ELSE IF (cell = Alive /\ live_neighbors = 2) \/ (cell = Alive /\ live_neighbors = 3)
         THEN Alive
    ELSE IF cell = Alive /\ live_neighbors > 3 THEN Dead
    ELSE IF cell = Dead /\ live_neighbors = 3 THEN Alive
    ELSE cell

\* A variant of the arm guards in which the overpopulation arm starts at 3.
ArmMatches_Over2(arm, cell, live_neighbors) ==
    CASE arm = 1 -> cell = Alive /\ live_neighbors < 2
      [] arm = 2 -> (cell = Alive /\ live_neighbors = 2) \/ (cell = Alive /\ live_neighbors = 3)
      [] arm = 3 -> cell = Alive /\ live_neighbors > 2
      [] arm = 4 -> cell = Dead /\ live_neighbors = 3

\* The pattern and guard of each of the four rule arms of the match, taken
\* on its own; the fifth arm (otherwise, _) matches everything.
ArmMatches(arm, cell, live_neighbors) ==
    CASE arm = 1 -> cell = Alive /\ live_neighbors < 2
      [] arm = 2 -> (cell = Alive /\ live_neighbors = 2) \/ (cell = Alive /\ live_neighbors = 3)
      [] arm = 3 -> cell = Alive /\ live_neighbors > 3
      [] arm = 4 -> cell = Dead /\ live_neighbors = 3

\* The value each rule arm of the match produces.
ArmValue(arm) ==
    CASE arm = 1 -> Dead
      [] arm = 2 -> Alive
      [] arm = 3 -> Dead
      [] arm = 4 -> Alive

\* Variant: the scan reads the buffer it is writing (an update in place).
TickCell_InPlace(self, next, row, col) ==
    LET written == [self EXCEPT !.cells = next]
        idx == get_index(written, row, col)
        cell == At(written.cells, idx)
        live_neighbors == live_neighbor_count(written, row, col)
    IN  [next EXCEPT ![idx + 1] = NextCell(cell, live_neighbors)]

\* The body of the inner loop for one (row, col): next with next[idx] written.
TickCell(self, next, row, col) ==
    LET idx == get_index(self, row, col)
        cell == At(self.cells, idx)
        live_neighbors == live_neighbor_count(self, row, col)
        next_cell == NextCell(cell, live_neighbors)
    IN  [next EXCEPT ![idx + 1] = next_cell]

\* `for col in lo..hi` of one row, in increasing order of col.  The range is
\* run as its lower half followed by its upper half, which keeps the nesting
\* of the evaluation logarithmic in the width.  The buffer left by the lower
\* half is bound as an element of a singleton set, so that it is a computed
\* value before the upper half starts writing to it.
RECURSIVE TickCols(_, _, _, _, _)
TickCols(self, next, row, lo, hi) ==
    IF hi <= lo THEN next
    ELSE IF hi = lo + 1 THEN TickCell(self, next, row, lo)
    ELSE LET mid == (lo + hi) \div 2
         IN  CHOOSE done \in {TickCols(self, lower, row, mid, hi) :
                               lower \in {TickCols(self, next, row, lo, mid)}} : TRUE

\* `for row in lo..hi`, in increasing order of row, each row running the
\* inner loop `for col in 0..self.width`.
RECURSIVE TickRows(_, _, _, _)
TickRows(self, next, lo, hi) ==
    IF hi <= lo THEN next
    ELSE IF hi = lo + 1 THEN TickCols(self, next, lo, 0, self.width)
    ELSE LET mid == (lo + hi) \div 2
         IN  CHOOSE done \in {TickRows(self, lower, mid, hi) :
                               lower \in {TickRows(self, next, lo, mid)}} : TRUE

\* The value assigned to self.cells by tick(): next starts as a clone.
TickCells(self) == TickRows(self, self.cells, 0, self.height)

\* --------------------------------------------------------------- Display
\* slice.chunks(n), n > 0: consecutive sub-slices of length n, the last shorter.
RECURSIVE chunks(_, _)
chunks(s, n) ==
    IF Len(s) = 0 THEN <<>>
    ELSE IF Len(s) <= n THEN <<s>>
    ELSE <<SubSeq(s, 1, n)>> \o chunks(SubSeq(s, n + 1, Len(s)), n)

Symbol(cell) == IF cell = Dead THEN Hollow ELSE Filled

\* One row: a symbol per cell, then "\n".
FmtLine(line) == [i \in 1..Len(line) |-> Symbol(line[i])] \o <<Newline>>

RECURSIVE FmtLines(_, _)
FmtLines(lines, i) ==
    IF i > Len(lines) THEN <<>>
    ELSE FmtLine(lines[i]) \o FmtLines(lines, i + 1)

\* Variant: the rows cut at the height instead of the width.
render_ChunksByHeight(self) == FmtLines(chunks(self.cells, self.height), 1)

\* fmt writes every chunk of width cells; render() is to_string().
render(self) == FmtLines(chunks(self.cells, self.width), 1)

\* ------------------------------------------------------------------- new
\* Variant: the index range closed at width * height.
NewCells_Inclusive(w, h) ==
    [k \in 1..(w * h + 1) |->
        LET i == k - 1 IN IF i % 2 = 0 \/ i % 7 = 0 THEN Alive ELSE Dead]

\* Variant: `&&` for `||` in the seeding rule.
NewCells_And(w, h) ==
    [k \in 1..(w * h) |->
        LET i == k - 1 IN IF i % 2 = 0 /\ i % 7 = 0 THEN Alive ELSE Dead]

NewCells(w, h) ==
    [k \in 1..(w * h) |->
        LET i == k - 1 IN IF i % 2 = 0 \/ i % 7 = 0 THEN Alive ELSE Dead]

new == Universe(NewWidth, NewHeight, NewCells(NewWidth, NewHeight))

\* --------------------------------------------------------------- actions
Init ==
    /\ width = new.width
    /\ height = new.height
    /\ cells = new.cells
    /\ last = "new"
    /\ out = <<>>
    /\ gen = 0
    /\ start = new.cells
    /\ Quiescent

\* tick() as one step, from its first line to its last.
Tick ==
    /\ pc = "idle"
    /\ cells' = TickCells(Self)
    /\ last' = "tick"
    /\ out' = <<>>
    /\ ret' = <<>>
    /\ gen' = gen + 1
    /\ UNCHANGED <<width, height, start, pc, next_buf, todo>>

\* Variant: the rows are taken out of the buffer while they are written.
Render_Drains ==
    /\ pc = "idle"
    /\ out' = render(Self)
    /\ cells' = <<>>
    /\ last' = "render"
    /\ ret' = <<>>
    /\ UNCHANGED <<width, height, gen, start, pc, next_buf, todo>>

Render ==
    /\ pc = "idle"
    /\ out' = render(Self)
    /\ last' = "render"
    /\ ret' = <<>>
    /\ UNCHANGED <<width, height, cells, gen, start, pc, next_buf, todo>>

\* width(), height(): the field is returned.
Width ==
    /\ pc = "idle"
    /\ ret' = width
    /\ last' = "width"
    /\ out' = <<>>
    /\ UNCHANGED <<width, height, cells, gen, start, pc, next_buf, todo>>

Height ==
    /\ pc = "idle"
    /\ ret' = height
    /\ last' = "height"
    /\ out' = <<>>
    /\ UNCHANGED <<width, height, cells, gen, start, pc, next_buf, todo>>

\* cells(): a pointer to the buffer of self.cells, modelled by the cells a
\* reader finds behind it when the call returns.
Cells ==
    /\ pc = "idle"
    /\ ret' = cells
    /\ last' = "cells"
    /\ out' = <<>>
    /\ UNCHANGED <<width, height, cells, gen, start, pc, next_buf, todo>>

Next ==
    \/ (gen < MaxGen /\ Tick)
    \/ Render

Spec == Init /\ [][Next]_vars

\* The universe of new() under every public method.
NextApi ==
    \/ (gen < MaxApiGen /\ Tick)
    \/ Render
    \/ Width
    \/ Height
    \/ Cells

SpecApi == Init /\ [][NextApi]_vars

\* Every well-formed grid within the bounds, as a universe under construction.
InitGrid ==
    /\ width \in 1..MaxDim
    /\ height \in 1..MaxDim
    /\ width * height <= MaxCells
    /\ cells \in [1..(width * height) -> {Dead, Alive}]
    /\ last = "new"
    /\ out = <<>>
    /\ gen = 0
    /\ start = cells
    /\ Quiescent

NextGrid ==
    \/ (gen < MaxGridGen /\ Tick)
    \/ Render

SpecGrid == InitGrid /\ [][NextGrid]_vars

\* ------------------------------------------------- tick(), cell by cell
\* The wrapped (neighbor_row, neighbor_col) pairs live_neighbor_count computes
\* for (row, column): one for each pair of deltas that is not skipped.
NeighborCoords(self, row, column) ==
    {<<(row + DeltaRows(self)[p[1]]) % self.height,
       (column + DeltaCols(self)[p[2]]) % self.width>> :
        p \in {q \in (1..3) \X (1..3) :
                  ~(DeltaRows(self)[q[1]] = 0 /\ DeltaCols(self)[q[2]] = 0)}}

\* The linear positions one pass of the loop body indexes with: idx of the
\* cell itself and idx of each neighbour.
StepIndices(self, row, column) ==
    {get_index(self, row, column)}
        \cup {get_index(self, c[1], c[2]) : c \in NeighborCoords(self, row, column)}

\* Indexing a Vec is bounds-checked: the pass for (row, column) runs without
\* a panic iff every position it indexes with is inside the buffers.
StepInBounds(self, buf, row, column) ==
    \A idx \in StepIndices(self, row, column) :
        idx >= 0 /\ idx < Len(self.cells) /\ idx < Len(buf)

\* `let mut next = self.cells.clone();` and the entry into the loops.
TickBegin ==
    /\ pc = "idle"
    /\ pc' = "scan"
    /\ next_buf' = cells
    /\ todo' = (0..(height - 1)) \X (0..(width - 1))
    /\ UNCHANGED <<width, height, cells, last, out, gen, start, ret>>

\* One pass of the loop body, for the pair (row, col): next[idx] is written,
\* or an index is out of bounds and the call ends in a panic.
TickStep(row, col) ==
    /\ pc = "scan"
    /\ <<row, col>> \in todo
    /\ IF StepInBounds(Self, next_buf, row, col)
       THEN /\ next_buf' = TickCell(Self, next_buf, row, col)
            /\ todo' = todo \ {<<row, col>>}
            /\ pc' = pc
       ELSE /\ next_buf' = <<>>
            /\ todo' = {}
            /\ pc' = "panic"
    /\ UNCHANGED <<width, height, cells, last, out, gen, start, ret>>

\* (row, col) comes before (row2, col2) in `for row .. { for col .. }`.
ScannedBefore(p, q) == p[1] < q[1] \/ (p[1] = q[1] /\ p[2] < q[2])

\* The next pass of the loops as written: the first pair still to handle.
TickScan ==
    \E p \in todo :
        /\ \A q \in todo : q = p \/ ScannedBefore(p, q)
        /\ TickStep(p[1], p[2])

\* A pass for any pair still to handle: the loops run in any order.
TickScanAny == \E p \in todo : TickStep(p[1], p[2])

\* `self.cells = next;` after the loops, and the return.
TickEnd ==
    /\ pc = "scan"
    /\ todo = {}
    /\ cells' = next_buf
    /\ next_buf' = <<>>
    /\ pc' = "idle"
    /\ last' = "tick"
    /\ out' = <<>>
    /\ ret' = <<>>
    /\ gen' = gen + 1
    /\ UNCHANGED <<width, height, start, todo>>

\* Every well-formed grid within the scan bounds.
InitScan ==
    /\ width \in 1..MaxScanDim
    /\ height \in 1..MaxScanDim
    /\ width * height <= MaxScanCells
    /\ cells \in [1..(width * height) -> {Dead, Alive}]
    /\ last = "new"
    /\ out = <<>>
    /\ gen = 0
    /\ start = cells
    /\ Quiescent

NextScan ==
    \/ (gen < MaxGridGen /\ TickBegin)
    \/ TickScan
    \/ TickEnd
    \/ Render

NextScanAny ==
    \/ (gen < MaxGridGen /\ TickBegin)
    \/ TickScanAny
    \/ TickEnd
    \/ Render

\* tick() is synchronous: once called, its loops run on to the return.
ScanFairness == WF_vars(TickScan) /\ WF_vars(TickEnd)

SpecScan == InitScan /\ [][NextScan]_vars /\ ScanFairness

\* The grids small enough to follow every order of the passes.
InitScanAny == InitScan /\ width * height <= MaxAnyCells

SpecScanAny == InitScanAny /\ [][NextScanAny]_vars

\* ------------------------------------------- reference notions of the rules
\* The cell at (row, column) of a row-major cell sequence of width w.
CellAt(cs, w, row, column) == cs[row * w + column + 1]

Rows == 0..(height - 1)

Cols == 0..(width - 1)

\* The offsets of the eight neighbours of a cell.
Offsets == ({-1, 0, 1} \X {-1, 0, 1}) \ {<<0, 0>>}

\* The positions of the neighbours of (row, column) on the w x h torus.
NeighborPositions(w, h, row, column) ==
    {<<(row + d[1]) % h, (column + d[2]) % w>> : d \in Offsets}

\* The number of Alive cells among the neighbours of (row, column).
AliveNeighbors(cs, w, h, row, column) ==
    Cardinality({p \in NeighborPositions(w, h, row, column) :
                    CellAt(cs, w, p[1], p[2]) = Alive})

\* Conway's rule for one cell with n live neighbours.
ConwayRule(cell, n) ==
    IF cell = Alive
    THEN (IF n = 2 \/ n = 3 THEN Alive ELSE Dead)
    ELSE (IF n = 3 THEN Alive ELSE Dead)

\* The w x h grid whose Alive cells are exactly the positions in alive.
GridWith(w, h, alive) ==
    [k \in 1..(w * h) |->
        IF <<(k - 1) \div w, (k - 1) % w>> \in alive THEN Alive ELSE Dead]

AllDead(cs) == \A k \in 1..Len(cs) : cs[k] = Dead

AliveCount(cs) == Cardinality({k \in 1..Len(cs) : cs[k] = Alive})

\* ------------------------------------------------------ placed patterns
\* The 2x2 block with its top-left cell at (row, column), wrapping at the edges.
BlockAt(w, h, row, column) ==
    {<<row, column>>, <<row, (column + 1) % w>>,
     <<(row + 1) % h, column>>, <<(row + 1) % h, (column + 1) % w>>}

\* Two orthogonally adjacent cells starting at (row, column).
PairAt(w, h, row, column, vertical) ==
    IF vertical
    THEN {<<row, column>>, <<(row + 1) % h, column>>}
    ELSE {<<row, column>>, <<row, (column + 1) % w>>}

\* The horizontal and the vertical line of three cells centred at (row, column).
LineH(w, h, row, column) ==
    {<<row, (column - 1) % w>>, <<row, column>>, <<row, (column + 1) % w>>}

LineV(w, h, row, column) ==
    {<<(row - 1) % h, column>>, <<row, column>>, <<(row + 1) % h, column>>}

\* A universe constructed as one of the given universes.
InitFrom(universes) ==
    /\ \E u \in universes :
          /\ width = u.width
          /\ height = u.height
          /\ cells = u.cells
    /\ last = "new"
    /\ out = <<>>
    /\ gen = 0
    /\ start = cells
    /\ Quiescent

\* The w x h universes that hold one pattern, at every position.
BlockUniverses(w, h) ==
    {Universe(w, h, GridWith(w, h, BlockAt(w, h, row, column))) :
        row \in 0..(h - 1), column \in 0..(w - 1)}

PairUniverses(w, h) ==
    {Universe(w, h, GridWith(w, h, PairAt(w, h, row, column, vertical))) :
        row \in 0..(h - 1), column \in 0..(w - 1), vertical \in BOOLEAN}

BlinkerUniverses(w, h) ==
    {Universe(w, h, GridWith(w, h, LineH(w, h, row, column))) :
        row \in 0..(h - 1), column \in 0..(w - 1)}

InitBlock == InitFrom(UNION {BlockUniverses(w, h) : w \in 4..MaxPat, h \in 4..MaxPat})

InitPair == InitFrom(UNION {PairUniverses(w, h) : w \in 5..MaxPat, h \in 5..MaxPat})

InitBlinker == InitFrom(UNION {BlinkerUniverses(w, h) : w \in 5..MaxPat, h \in 5..MaxPat})

NextPat ==
    \/ (gen < MaxPatGen /\ Tick)
    \/ Render

SpecBlock == InitBlock /\ [][NextPat]_vars

SpecPair == InitPair /\ [][NextPat]_vars

SpecBlinker == InitBlinker /\ [][NextPat]_vars

\* ---------------------------------------------------------------- claims

\* C1: on every grid with width >= 3 and height >= 3, a tick() leaves every
\* cell with Conway's rule applied to its pre-tick value and its pre-tick
\* number of live neighbours (counts are taken on the previous generation).
C1_TickIsConway ==
    [][(gen' = gen + 1 /\ width >= 3 /\ height >= 3) =>
          \A row \in Rows, col \in Cols :
              CellAt(cells', width, row, col)
                  = ConwayRule(CellAt(cells, width, row, col),
                               AliveNeighbors(cells, width, height, row, col))]_vars

\* A tick has run on a grid of at least 3x3 and both a birth and a death happened.
C1_Witness ==
    /\ gen = 1 /\ last = "tick" /\ width >= 3 /\ height >= 3
    /\ \E k \in 1..Len(cells) : start[k] = Dead /\ cells[k] = Alive
    /\ \E k \in 1..Len(cells) : start[k] = Alive /\ cells[k] = Dead

\* C2: in every reachable state, after new() and after any number of ticks,
\* the cell sequence has exactly width * height cells.
C2_BufferLength ==
    /\ DOMAIN cells = 1..(width * height)
    /\ Len(cells) = width * height

\* Two ticks after new(), the buffer still has 64 * 64 cells.
C2_Witness == gen = 2 /\ last = "tick" /\ Len(cells) = NewWidth * NewHeight

\* C3: on every grid with width >= 3 and height >= 3 the eight wrapped
\* neighbour positions of a cell are pairwise distinct and live_neighbor_count
\* is the number of Alive cells among them; on the 3x3 grid with only (0,0)
\* Alive, live_neighbor_count(2,2) is 1.
C3_NeighborCountWraps ==
    /\ (width >= 3 /\ height >= 3) =>
          \A row \in Rows, col \in Cols :
              /\ Cardinality(NeighborPositions(width, height, row, col)) = 8
              /\ live_neighbor_count(Self, row, col)
                    = AliveNeighbors(cells, width, height, row, col)
    /\ (width = 3 /\ height = 3 /\ cells = GridWith(3, 3, {<<0, 0>>})) =>
          live_neighbor_count(Self, 2, 2) = 1

\* The 3x3 grid with only the corner (0,0) Alive, seen from the opposite corner.
C3_Witness ==
    /\ width = 3 /\ height = 3 /\ cells = GridWith(3, 3, {<<0, 0>>})
    /\ live_neighbor_count(Self, 2, 2) = 1
    /\ live_neighbor_count(Self, 1, 1) = 1

\* C4: for every cell of every grid with width >= 1 and height >= 1,
\* live_neighbor_count is between 0 and 8.
C4_NeighborCountRange ==
    \A row \in Rows, col \in Cols : live_neighbor_count(Self, row, col) \in 0..8

\* The upper end of the range occurs: a Dead cell whose count is 8, on a grid
\* narrower than 3 where the eight counted positions are not distinct.
C4_Witness ==
    /\ width < 3
    /\ \E row \in Rows, col \in Cols :
          /\ CellAt(cells, width, row, col) = Dead
          /\ live_neighbor_count(Self, row, col) = 8

\* C5: new() yields width = 64 and height = 64 and, for every linear index i
\* in [0, 4096), cell i Alive iff i mod 2 = 0 or i mod 7 = 0, Dead otherwise.
C5_DeterministicConstruction ==
    gen = 0 =>
        /\ width = 64
        /\ height = 64
        /\ DOMAIN cells = 1..4096
        /\ \A i \in 0..4095 :
              /\ (i % 2 = 0 \/ i % 7 = 0) => At(cells, i) = Alive
              /\ ~(i % 2 = 0 \/ i % 7 = 0) => At(cells, i) = Dead

\* Right after new(): cell 7 is Alive through the mod 7 rule, cell 1 is Dead.
C5_Witness ==
    /\ gen = 0 /\ last = "new"
    /\ At(cells, 7) = Alive /\ At(cells, 2) = Alive /\ At(cells, 1) = Dead

\* C6: a 2x2 fully Alive block at any position of a grid of at least 4x4,
\* edges included, with every other cell Dead, is unchanged by any number of
\* ticks, and each of its four cells has exactly 3 live neighbours.
C6_BlockIsStill ==
    /\ cells = start
    /\ AliveCount(cells) = 4
    /\ \A row \in Rows, col \in Cols :
          CellAt(cells, width, row, col) = Alive =>
              live_neighbor_count(Self, row, col) = 3

\* After two ticks, a block that straddles both wrapped edges of a 4x4 grid.
C6_Witness ==
    /\ gen = 2 /\ last = "tick" /\ width = 4 /\ height = 4
    /\ cells = GridWith(4, 4, {<<3, 3>>, <<3, 0>>, <<0, 3>>, <<0, 0>>})

\* C7: a live cell with no live neighbours is Dead after a tick; on the 3x3
\* grid with only (1,1) Alive the count of (1,1) is 0 and after a tick (1,1)
\* and all 9 cells are Dead.
C7_LonelyCellDies ==
    /\ gen = 1 =>
          \A row \in Rows, col \in Cols :
              (/\ CellAt(start, width, row, col) = Alive
               /\ AliveNeighbors(start, width, height, row, col) = 0)
                  => CellAt(cells, width, row, col) = Dead
    /\ (width = 3 /\ height = 3 /\ start = GridWith(3, 3, {<<1, 1>>})) =>
          /\ gen = 0 => live_neighbor_count(Self, 1, 1) = 0
          /\ gen >= 1 => (CellAt(cells, width, 1, 1) = Dead /\ AllDead(cells))

\* One tick after the 3x3 grid with only its centre Alive.
C7_Witness ==
    /\ width = 3 /\ height = 3 /\ start = GridWith(3, 3, {<<1, 1>>})
    /\ gen = 1 /\ last = "tick" /\ AllDead(cells) /\ Len(cells) = 9

\* C8 as stated: two orthogonally adjacent Alive cells on a grid of at least
\* 5x5 oscillate with period 2: the grid after two ticks equals the starting
\* grid and the grid after one tick differs from it.
C8_PairOscillates ==
    /\ gen = 1 => cells # start
    /\ gen = 2 => cells = start

\* C8 amended: two orthogonally adjacent Alive cells on a grid of at least
\* 5x5 die out: the grid after one tick differs from the starting grid, every
\* cell of it being Dead, and it stays all Dead after every later tick.
C8_PairDies ==
    /\ gen = 1 => cells # start
    /\ gen >= 1 => AllDead(cells)

\* Two ticks after a pair: the grid is all Dead and is not the starting grid.
C8_Witness ==
    /\ gen = 2 /\ last = "tick" /\ AliveCount(start) = 2
    /\ AllDead(cells) /\ cells # start

\* The centre of the horizontal line of three the universe started with.
StartCentre ==
    CHOOSE p \in Rows \X Cols : start = GridWith(width, height, LineH(width, height, p[1], p[2]))

\* C9: three Alive cells in a horizontal line on a grid of at least 5x5
\* oscillate with period 2: after every odd number of ticks the grid is the
\* vertical line of three through the same centre, after every even number
\* it is the starting grid.
C9_BlinkerPeriod2 ==
    /\ gen % 2 = 0 => cells = start
    /\ gen % 2 = 1 =>
          cells = GridWith(width, height,
                           LineV(width, height, StartCentre[1], StartCentre[2]))

\* Three ticks after a blinker centred on the corner (0,0) of a 5x6 grid: the
\* vertical line that wraps over the top edge.
C9_Witness ==
    /\ gen = 3 /\ last = "tick" /\ width = 5 /\ height = 6
    /\ start = GridWith(5, 6, {<<0, 4>>, <<0, 0>>, <<0, 1>>})
    /\ cells = GridWith(5, 6, {<<5, 0>>, <<0, 0>>, <<1, 0>>})

\* C10: for a well-formed grid with width >= 1, render() yields height lines
\* in row order, each of width glyphs followed by a newline, the glyph at
\* line r, position c hollow iff cell (r, c) is Dead and filled iff it is
\* Alive; a 2x2 all-Dead grid renders as two lines of two hollow squares.
C10_RenderFormat ==
    last = "render" =>
        /\ Len(out) = height * (width + 1)
        /\ \A row \in Rows :
              /\ \A col \in Cols :
                    /\ CellAt(cells, width, row, col) = Dead
                          <=> out[row * (width + 1) + col + 1] = Hollow
                    /\ CellAt(cells, width, row, col) = Alive
                          <=> out[row * (width + 1) + col + 1] = Filled
              /\ out[row * (width + 1) + width + 1] = Newline
        /\ (width = 2 /\ height = 2 /\ AllDead(cells)) =>
              out = <<Hollow, Hollow, Newline, Hollow, Hollow, Newline>>

\* render() of a 2x3 grid (3 lines of 2 glyphs) with cells of both kinds.
C10_Witness ==
    /\ last = "render" /\ width = 2 /\ height = 3
    /\ cells = <<Alive, Dead, Dead, Dead, Dead, Alive>>
    /\ out = <<Filled, Hollow, Newline, Hollow, Hollow, Newline, Hollow, Filled, Newline>>

\* C11: width and height are fixed at construction: no step of tick(),
\* render(), width(), height() or cells() changes them, so they always equal
\* the values set by new(); and no operation but tick() changes the cells.
C11_DimensionsFixed ==
    /\ [](width = NewWidth /\ height = NewHeight)
    /\ [][/\ width' = width
          /\ height' = height
          /\ last' # "tick" => cells' = cells]_vars

\* cells() called after two ticks, on a generation that differs from the
\* one new() built: the dimensions are still those of new().
C11_Witness ==
    /\ gen = 2 /\ last = "cells" /\ ret = cells /\ cells # start
    /\ width = NewWidth /\ height = NewHeight

\* The value tick() leaves in the cell at (row, col) of the grid cs.
NextValue(cs, row, col) ==
    NextCell(CellAt(cs, width, row, col),
             live_neighbor_count(Universe(width, height, cs), row, col))

\* C12: with tick() followed one cell per step, in any order of the cells,
\* the universe's own cells stay the pre-tick generation through the scan
\* (a handled position of the next buffer holds its new value, any other
\* one its old value), they are replaced in one step only after all
\* width * height positions are handled, and the result is the one of the
\* loops as written whatever the order.
C12_ScanIsDoubleBuffered ==
    /\ [](pc = "scan" =>
            /\ Len(next_buf) = width * height
            /\ \A row \in Rows, col \in Cols :
                  CellAt(next_buf, width, row, col)
                      = IF <<row, col>> \in todo
                        THEN CellAt(cells, width, row, col)
                        ELSE NextValue(cells, row, col))
    /\ [][/\ pc = "idle" /\ pc' = "scan" => cells' = cells
          /\ pc = "scan" /\ pc' = "scan" => cells' = cells
          /\ cells' # cells => (pc = "scan" /\ todo = {} /\ pc' = "idle")
          /\ pc = "scan" /\ pc' = "idle" =>
                (todo = {} /\ cells' = next_buf /\ cells' = TickCells(Self))]_vars

\* Mid-scan on a 2x3 grid, the cells handled out of the order of the loops:
\* the last cell is done, the first is not, and the next buffer already
\* differs from the cells.
C12_Witness ==
    /\ pc = "scan" /\ width = 3 /\ height = 2
    /\ <<0, 0>> \in todo /\ <<1, 2>> \notin todo
    /\ next_buf # cells /\ cells = start

\* The universe with only the cell at (row, col) flipped.
Flipped(row, col) ==
    Universe(width, height,
             [cells EXCEPT ![row * width + col + 1] =
                 IF cells[row * width + col + 1] = Alive THEN Dead ELSE Alive])

\* Flipping the cell at (row, col) leaves its own live_neighbor_count as it is.
OwnCountIgnoresCell(row, col) ==
    live_neighbor_count(Flipped(row, col), row, col)
        = live_neighbor_count(Self, row, col)

\* C13 as stated: on every grid with width >= 1 and height >= 1, grids of
\* height 1 or width 1 included, the value of a cell never contributes to
\* its own live_neighbor_count.  (The grid does not change while a scan is
\* under way, so the grids are those of the states between operations.)
C13_NeverCountsItself ==
    pc = "idle" =>
        \A row \in Rows, col \in Cols : OwnCountIgnoresCell(row, col)

\* C13 amended: on every grid with width >= 2 and height >= 2 the value of a
\* cell never contributes to its own live_neighbor_count; on a grid of
\* height 1 or width 1 the cell is its own wrapped neighbour and flipping it
\* changes its own count.
C13_SkipsItselfFromTwoByTwo ==
    pc = "idle" =>
        \A row \in Rows, col \in Cols :
            OwnCountIgnoresCell(row, col) <=> (width >= 2 /\ height >= 2)

\* The 2x2 grid with every cell Alive: the count of (0,0) is 8 with (0,0)
\* Alive and still 8 with it flipped to Dead.
C13_Witness ==
    /\ pc = "idle"
    /\ width = 2 /\ height = 2 /\ AliveCount(cells) = 4
    /\ live_neighbor_count(Self, 0, 0) = 8
    /\ live_neighbor_count(Flipped(0, 0), 0, 0) = 8

\* Every position the pass over (row, col) hands to the cell vector, and
\* every wrapped neighbour coordinate it computes, is inside the grid.
PassInBounds(row, col) ==
    /\ \A idx \in StepIndices(Self, row, col) :
           idx >= 0 /\ idx < width * height
    /\ \A c \in NeighborCoords(Self, row, col) :
           c[1] >= 0 /\ c[1] < height /\ c[2] >= 0 /\ c[2] < width

\* C14: on every grid with width >= 1, height >= 1 and width * height cells,
\* every linear position computed during a tick (for the scanned cell and
\* for each wrapped neighbour) lies in [0, width * height), every wrapped
\* neighbour coordinate has its row below height and its column below width,
\* no pass of the scan fails, and a tick that has begun runs to completion.
C14_TickTotalInBounds ==
    /\ [](/\ pc # "panic"
          /\ Len(cells) = width * height
          /\ \A row \in Rows, col \in Cols : PassInBounds(row, col))
    /\ (pc = "scan") ~> (pc = "idle" /\ last = "tick" /\ todo = {})

\* A tick has run to completion on the grid with 2 columns and 3 rows, where
\* a stride by the wrong dimension would leave the cell vector.
C14_Witness ==
    /\ pc = "idle" /\ last = "tick" /\ gen = 1
    /\ width = 2 /\ height = 3
    /\ get_index(Self, 2, 1) = 5
    /\ cells # start

\* The four rule arms, and every order in which they can be tried.
Arms == 1..4

ArmOrders == {order \in [Arms -> Arms] : \A a \in Arms : \E k \in Arms : order[k] = a}

MatchingArms(cell, n) == {a \in Arms : ArmMatches(a, cell, n)}

\* The value of the match with the rule arms tried in the given order and
\* the catch-all arm last.
EvalInOrder(order, cell, n) ==
    IF MatchingArms(cell, n) = {} THEN cell
    ELSE ArmValue(order[CHOOSE k \in Arms :
                            /\ ArmMatches(order[k], cell, n)
                            /\ \A j \in 1..(k - 1) : ~ArmMatches(order[j], cell, n)])

\* The case analysis over every pair (state, n): at most one rule matches,
\* every order of the rules gives the value of the match, and no rule
\* matches exactly for Dead with n other than 3.
RuleTableExclusive ==
    \A cell \in {Dead, Alive}, n \in 0..8 :
        /\ Cardinality(MatchingArms(cell, n)) <= 1
        /\ \A order \in ArmOrders : EvalInOrder(order, cell, n) = NextCell(cell, n)
        /\ MatchingArms(cell, n) = {} <=> (cell = Dead /\ n \in {0, 1, 2, 4, 5, 6, 7, 8})
        /\ cell = Alive => MatchingArms(cell, n) # {}

\* C15: for every (state, n) with state Dead or Alive and n in 0..8 at most
\* one of the rules 1-4 matches, trying the rules in any order gives the
\* value the match gives, and the catch-all arm is reached exactly for Dead
\* with n in {0,1,2,4,5,6,7,8}, never for Alive; every cell of every grid
\* presents a pair of that case analysis, and every value a scan has written
\* is the value of the match for its pair (hence of the rules in any order).
C15_RulesExclusive ==
    /\ RuleTableExclusive
    /\ \A row \in Rows, col \in Cols :
          \A cell \in {CellAt(cells, width, row, col)},
             n \in {live_neighbor_count(Self, row, col)} :
              /\ cell \in {Dead, Alive}
              /\ n \in 0..8
              /\ (pc = "scan" /\ <<row, col>> \notin todo) =>
                    /\ CellAt(next_buf, width, row, col) = NextCell(cell, n)
                    /\ CellAt(next_buf, width, row, col)
                           = EvalInOrder([a \in Arms |-> 5 - a], cell, n)

\* A scan has written a cell through the catch-all arm (Dead, 5 live
\* neighbours, still Dead) and one through rule 3 (Alive, 4 live neighbours,
\* now Dead).
C15_Witness ==
    /\ pc = "scan"
    /\ \E p \in (Rows \X Cols) \ todo :
          /\ CellAt(cells, width, p[1], p[2]) = Dead
          /\ live_neighbor_count(Self, p[1], p[2]) = 5
          /\ MatchingArms(Dead, 5) = {}
          /\ CellAt(next_buf, width, p[1], p[2]) = Dead
    /\ \E p \in (Rows \X Cols) \ todo :
          /\ CellAt(cells, width, p[1], p[2]) = Alive
          /\ live_neighbor_count(Self, p[1], p[2]) = 4
          /\ MatchingArms(Alive, 4) = {3}
          /\ CellAt(next_buf, width, p[1], p[2]) = Dead

\* The grid cs moved by dr rows and dc columns around the torus: the cell
\* at (row, col) of cs is at ((row + dr) mod height, (col + dc) mod width)
\* of the result.
Shift(cs, dr, dc) ==
    [idx \in 1..Len(cs) |->
        CellAt(cs, width,
               (((idx - 1) \div width) + height - dr) % height,
               (((idx - 1) % width) + width - dc) % width)]

\* C16: on every grid with width >= 1 and height >= 1 and for every shift
\* (dr, dc), ticking the shifted starting grid gives the shifted result of
\* ticking the starting grid.
C16_TickCommutesWithShift ==
    (gen = 1 /\ last = "tick" /\ pc = "idle") =>
        /\ cells = TickCells(Universe(width, height, start))
        /\ \A dr \in Rows, dc \in Cols :
              TickCells(Universe(width, height, Shift(start, dr, dc)))
                  = Shift(cells, dr, dc)

\* A tick has been taken from a grid of 2 rows and 3 columns that differs
\* from its own shift by one column, and the result differs from the start.
C16_Witness ==
    /\ gen = 1 /\ last = "tick" /\ pc = "idle"
    /\ width = 3 /\ height = 2
    /\ Shift(start, 0, 1) # start
    /\ Shift(start, 0, 1)[2] = start[1]
    /\ cells # start
    /\ Shift(cells, 0, 1) # cells

====
